---- MODULE Spec2Model ----
(***************************************************************************)
(* The profiler integration (homeassistant/components/profiler/__init__.py) *)
(* as a state machine.  Every action is one stretch of handler code that    *)
(* the event loop runs without yielding: from the handler's entry, or from  *)
(* the resumption of an await, up to the next await or the handler's end.   *)
(***************************************************************************)
EXTENDS Integers, Sequences, FiniteSets, TLC

\* ---------------------------------------------------------------- bounds
\* How many times async_setup_entry may run (each run is one "setup").
MaxSetups == 2
\* Concurrent callers of the start / memory actions.
NumProfileCalls == 3
\* Concurrent callers of the start_log_objects action.
NumLogCalls == 2
\* How many subscriptions async_track_time_interval hands out in one run.
MaxSubs == 3
\* How often start_log_objects calls may call one and the same cancel callback.
MaxCancels == 2
\* Entries of hass.loop._scheduled seen by one log_event_loop_scheduled call.
MaxScheduled == 2
\* Live instances objgraph.by_type returns to one dump_log_objects call.
MaxObjects == 3
\* In the specification of all handlers together: concurrent callers of the
\* start / memory actions, and of the start_log_objects action.
NumFrameProfileCalls == 2
NumFrameLogCalls == 1

\* ------------------------------------------------------ program constants
SERVICE_START == "start"
SERVICE_MEMORY == "memory"
SERVICE_START_LOG_OBJECTS == "start_log_objects"
SERVICE_STOP_LOG_OBJECTS == "stop_log_objects"
SERVICE_DUMP_LOG_OBJECTS == "dump_log_objects"
SERVICE_LRU_STATS == "lru_stats"
SERVICE_LOG_THREAD_FRAMES == "log_thread_frames"
SERVICE_LOG_EVENT_LOOP_SCHEDULED == "log_event_loop_scheduled"

SERVICES ==
    { SERVICE_START, SERVICE_MEMORY, SERVICE_START_LOG_OBJECTS,
      SERVICE_STOP_LOG_OBJECTS, SERVICE_DUMP_LOG_OBJECTS, SERVICE_LRU_STATS,
      SERVICE_LOG_THREAD_FRAMES, SERVICE_LOG_EVENT_LOOP_SCHEDULED }

\* The value both truncation limits are widened to during a scheduler dump.
WidenedLimit == 300

\* notification ids
NOTE_OBJECT_LOGGING == "profile_object_logging"
NOTE_OBJECT_DUMP == "profile_object_dump"
NOTE_LRU_STATS == "profile_lru_stats"

Setups == 1..MaxSetups
ProfileCalls == 1..NumProfileCalls
LogCalls == 1..NumLogCalls
Subs == 1..MaxSubs

VARIABLES
    setups,       \* number of async_setup_entry runs so far; the latest one's
                  \* closures (lock, domain_data) are the ones new calls get
    services,     \* the actions registered with the host
    hassData,     \* 0: hass.data has no DOMAIN key; g: it holds setup g's dict
    domain_data,  \* per setup: the LOG_INTERVAL_SUB entry of its dict, 0 if absent
    lock,         \* per setup: its asyncio.Lock [locked, waiters, woken]
    unsupported,  \* sys.version_info >= (3, 11)
    prof,         \* per caller of start / memory: the state of its handler
    lastRun,      \* the latest start / memory call that ended: what it did
    logc,         \* per caller of start_log_objects: the state of its handler
    lastStart,    \* the latest start_log_objects call that ended: what it did
    active,       \* subscriptions installed and not cancelled
    nextSub,      \* the next subscription async_track_time_interval returns
    cancelCalls,  \* per subscription: how often its cancel callback was called
    notes,        \* ids of the fixed-id notifications on display
    lastStop,     \* what the latest stop_log_objects call did
    preStop,      \* the start_log_objects calls that were suspended when the
                  \* latest stop_log_objects call returned, and still are
    arepr,        \* reprlib.aRepr: [maxstring, maxother]
    initRepr,     \* the value of arepr before the first handler ran
    lastSched,    \* the latest log_event_loop_scheduled call: input and output
    lastDump,     \* the latest dump_log_objects call: input and output
    lastLogger    \* which of the periodic sampler, lru_stats and
                  \* log_thread_frames wrote the log last

vars ==
    << setups, services, hassData, domain_data, lock, unsupported, prof,
       lastRun, logc, lastStart,
       active, nextSub, cancelCalls, notes, lastStop, preStop, arepr,
       initRepr, lastSched, lastDump, lastLogger >>

lifeVars == << setups, services, hassData >>
profVars == << lock, prof, lastRun >>
logVars ==
    << domain_data, logc, lastStart, active, nextSub, cancelCalls, lastStop,
       preStop >>
dumpVars == << arepr, lastSched, lastDump, lastLogger >>

\* ------------------------------------------------------------ initial state
IdleProf ==
    [ pc |-> "idle", kind |-> "none", setup |-> 0, note |-> "none",
      enabled |-> FALSE, ref |-> FALSE, files |-> 0, result |-> "none" ]

IdleLog ==
    [ pc |-> "idle", setup |-> 0, seen |-> 0, sub |-> 0, result |-> "none",
      seq |-> FALSE, steps |-> << >>, during |-> FALSE ]

\* asyncio.Lock(): unlocked, nobody waiting.
NewLock == [ locked |-> FALSE, waiters |-> << >>, woken |-> {} ]

\* reprlib.aRepr as the interpreter creates it, and as other code may have set it.
DefaultRepr == [ maxstring |-> 30, maxother |-> 30 ]
InitialLimits == { 30, 300 }

\* Nothing was logged yet by the periodic sampler, lru_stats or log_thread_frames.
NoLogger == "none"

Init ==
    /\ setups = 0
    /\ services = {}
    /\ hassData = 0
    /\ domain_data = [ g \in Setups |-> 0 ]
    /\ lock = [ g \in Setups |-> NewLock ]
    /\ unsupported \in BOOLEAN
    /\ prof = [ p \in ProfileCalls |-> IdleProf ]
    /\ lastRun = IdleProf
    /\ logc = [ t \in LogCalls |-> IdleLog ]
    /\ lastStart = IdleLog
    /\ active = {}
    /\ nextSub = 1
    /\ cancelCalls = [ s \in Subs |-> 0 ]
    /\ notes = {}
    /\ lastStop = "none"
    /\ preStop = {}
    /\ arepr \in [ maxstring : InitialLimits, maxother : InitialLimits ]
    /\ initRepr = arepr
    /\ lastSched = [ scheduled |-> << >>, logged |-> << >>, raised |-> FALSE ]
    /\ lastDump = [ objs |-> << >>, logged |-> << >>, raised |-> FALSE,
                    notified |-> FALSE ]
    /\ lastLogger = NoLogger

\* --------------------------------------------------------------- lifecycle
\* async_setup_entry: a new lock, a new dict in hass.data, the eight actions.
async_setup_entry ==
    /\ hassData = 0
    /\ setups < MaxSetups
    /\ setups' = setups + 1
    /\ hassData' = setups + 1
    /\ services' = SERVICES
    /\ domain_data' = [ domain_data EXCEPT ![setups + 1] = 0 ]
    /\ lock' = [ lock EXCEPT ![setups + 1] = NewLock ]
    /\ UNCHANGED << unsupported, prof, lastRun, logc, lastStart, active, nextSub,
                    cancelCalls, notes, lastStop, preStop, initRepr, dumpVars >>

\* async_unload_entry: removes the actions, calls the stored cancel callback
\* (the key stays in the dict), pops the dict from hass.data.
async_unload_entry ==
    /\ hassData # 0
    /\ services' = {}
    /\ LET h == domain_data[hassData] IN
         IF h # 0
           THEN /\ active' = active \ {h}
                /\ cancelCalls' = [ cancelCalls EXCEPT ![h] = @ + 1 ]
           ELSE UNCHANGED << active, cancelCalls >>
    /\ hassData' = 0
    /\ UNCHANGED << setups, domain_data, lock, unsupported, prof, lastRun, logc,
                    lastStart, nextSub,
                    notes, lastStop, preStop, initRepr, dumpVars >>

\* ------------------------------------------------------------ asyncio.Lock
\* Fault variant: the handler runs on without looking at the lock
LockFree_Unguarded(l) == TRUE

\* Lock.acquire takes the lock at once only when it is free and nobody waits.
LockFree(l) == ~l.locked /\ l.waiters = << >>

\* Fault variant: release wakes the latest waiter instead of the first
ReleaseLock_Lifo(l) ==
    [ l EXCEPT !.locked = FALSE,
               !.woken = IF l.waiters = << >> THEN {}
                         ELSE { l.waiters[Len(l.waiters)] } ]

\* Lock.release: unlock, and wake the first waiter.
ReleaseLock(l) ==
    [ l EXCEPT !.locked = FALSE,
               !.woken = IF l.waiters = << >> THEN {} ELSE { Head(l.waiters) } ]

\* A woken waiter resumes in Lock.acquire: leaves the queue, takes the lock.
GrantLock(l, p) ==
    [ l EXCEPT !.locked = TRUE,
               !.waiters = SelectSeq(@, LAMBDA q : q # p),
               !.woken = @ \ {p} ]

\* ---------------------------------------------------- start / memory actions
\* _async_generate_profile from its entry to `await asyncio.sleep`.
async_generate_profile(r) ==
    [ r EXCEPT !.note = "started", !.enabled = TRUE, !.pc = "sleeping" ]

\* Fault variant: the runtime check comes after the heap reference point
async_generate_memory_profile_LateCheck(r) ==
    IF unsupported
      THEN [ r EXCEPT !.note = "started", !.ref = TRUE,
                      !.result = "HomeAssistantError", !.pc = "done" ]
      ELSE [ r EXCEPT !.note = "started", !.ref = TRUE, !.pc = "sleeping" ]

\* _async_generate_memory_profile from its entry to `await asyncio.sleep`,
\* or to the raise of HomeAssistantError.
async_generate_memory_profile(r) ==
    IF unsupported
      THEN [ r EXCEPT !.result = "HomeAssistantError", !.pc = "done" ]
      ELSE [ r EXCEPT !.note = "started", !.ref = TRUE, !.pc = "sleeping" ]

\* The record of a call that has ended (returned or raised).
Ended(r) == [ r EXCEPT !.pc = "done", !.setup = 0 ]

\* The body of `async with lock:` once the lock is held (l is the held lock);
\* leaving the block by an exception releases the lock.
RunLocked(p, r, l) ==
    LET r2 == IF r.kind = "cpu" THEN async_generate_profile(r)
                                ELSE async_generate_memory_profile(r)
    IN IF r2.pc = "done"
         THEN /\ prof' = [ prof EXCEPT ![p] = IdleProf ]
              /\ lastRun' = Ended(r2)
              /\ lock' = [ lock EXCEPT ![r.setup] = ReleaseLock(l) ]
         ELSE /\ prof' = [ prof EXCEPT ![p] = r2 ]
              /\ lock' = [ lock EXCEPT ![r.setup] = l ]
              /\ UNCHANGED lastRun

\* A new call is given the first free caller slot (slots only name callers).
FreeProfileSlot(p) ==
    /\ prof[p].pc = "idle"
    /\ \A q \in ProfileCalls : q < p => prof[q].pc # "idle"

\* The handler's entry: `async with lock:` either takes the lock and runs on,
\* or queues the caller behind the lock.
EnterLock(p, kind) ==
    LET g == setups
        r == [ IdleProf EXCEPT !.kind = kind, !.setup = g ]
    IN /\ FreeProfileSlot(p)
       /\ IF LockFree(lock[g])
            THEN RunLocked(p, r, [ lock[g] EXCEPT !.locked = TRUE ])
            ELSE /\ prof' = [ prof EXCEPT ![p] = [ r EXCEPT !.pc = "waiting" ] ]
                 /\ lock' = [ lock EXCEPT ![g].waiters = Append(@, p) ]
                 /\ UNCHANGED lastRun
       /\ UNCHANGED << lifeVars, logVars, dumpVars, unsupported, notes, initRepr >>

async_run_profile(p) ==
    /\ SERVICE_START \in services
    /\ EnterLock(p, "cpu")

async_run_memory_profile(p) ==
    /\ SERVICE_MEMORY \in services
    /\ EnterLock(p, "memory")

\* A caller queued at `async with lock:` resumes with the lock.
async_run_resume(p) ==
    LET r == prof[p] IN
    /\ r.pc = "waiting"
    /\ p \in lock[r.setup].woken
    /\ RunLocked(p, r, GrantLock(lock[r.setup], p))
    /\ UNCHANGED << lifeVars, logVars, dumpVars, unsupported, notes, initRepr >>

\* Fault variant: the lock is given up when the wait is over, before the files
\* are written
generate_sleep_done_ReleasesLock(p) ==
    /\ prof[p].pc = "sleeping"
    /\ prof' = [ prof EXCEPT ![p].enabled = FALSE, ![p].pc = "writing" ]
    /\ lock' = [ lock EXCEPT ![prof[p].setup] = ReleaseLock(@) ]
    /\ UNCHANGED << lifeVars, lastRun, logVars, dumpVars, unsupported,
                    notes, initRepr >>

\* `await asyncio.sleep(seconds)` returns: profiler.disable() / heap(), and the
\* write is handed to the executor.
generate_sleep_done(p) ==
    /\ prof[p].pc = "sleeping"
    /\ prof' = [ prof EXCEPT ![p].enabled = FALSE, ![p].pc = "writing" ]
    /\ UNCHANGED << lifeVars, lock, lastRun, logVars, dumpVars, unsupported,
                    notes, initRepr >>

\* The executor job (_write_profile / _write_memory_profile) returns: the
\* completion notification replaces the start one, the lock is released, the
\* handler returns.
write_profile_done(p) ==
    LET r == prof[p] IN
    /\ r.pc = "writing"
    /\ lastRun' = Ended([ r EXCEPT !.files = IF r.kind = "cpu" THEN 2 ELSE 1,
                                   !.note = "complete",
                                   !.result = "ok" ])
    /\ prof' = [ prof EXCEPT ![p] = IdleProf ]
    /\ lock' = [ lock EXCEPT ![r.setup] = ReleaseLock(@) ]
    /\ UNCHANGED << lifeVars, logVars, dumpVars, unsupported, notes, initRepr >>

\* Fault variant: the lock is taken and given back by hand, not by `async with`,
\* so an error in the run leaves it held
write_profile_failed_KeepsLock(p) ==
    LET r == prof[p] IN
    /\ r.pc = "writing"
    /\ lastRun' = Ended([ r EXCEPT !.result = "error" ])
    /\ prof' = [ prof EXCEPT ![p] = IdleProf ]
    /\ UNCHANGED << lifeVars, lock, logVars, dumpVars, unsupported, notes,
                    initRepr >>

\* The executor job raises: the error leaves `async with`, releasing the lock.
write_profile_failed(p) ==
    LET r == prof[p] IN
    /\ r.pc = "writing"
    /\ lastRun' = Ended([ r EXCEPT !.result = "error" ])
    /\ prof' = [ prof EXCEPT ![p] = IdleProf ]
    /\ lock' = [ lock EXCEPT ![r.setup] = ReleaseLock(@) ]
    /\ UNCHANGED << lifeVars, logVars, dumpVars, unsupported, notes, initRepr >>

NextLife ==
    \/ async_setup_entry
    \/ async_unload_entry

NextProfile ==
    \/ \E p \in ProfileCalls : async_run_profile(p)
    \/ \E p \in ProfileCalls : async_run_memory_profile(p)
    \/ \E p \in ProfileCalls : async_run_resume(p)
    \/ \E p \in ProfileCalls : generate_sleep_done(p)
    \/ \E p \in ProfileCalls : write_profile_done(p)
    \/ \E p \in ProfileCalls : write_profile_failed(p)

\* The lifecycle and the two profile actions.
InitProfile == Init /\ arepr = DefaultRepr

SpecProfile == InitProfile /\ [][NextLife \/ NextProfile]_vars

\* A profile run holds its lock: its caller is at the sleep or at the write.
ProfileInFlight ==
    \E p \in ProfileCalls : prof[p].pc \in { "sleeping", "writing" }

\* ------------------------------------------- start / stop_log_objects actions
\* A new call is given the first free caller slot (slots only name callers).
FreeLogSlot(t) ==
    /\ logc[t].pc = "idle"
    /\ \A u \in LogCalls : u < t => logc[u].pc # "idle"

\* start_log_objects calls suspended at `await hass.async_add_executor_job`.
Awaiting == { t \in LogCalls : logc[t].pc = "awaiting" }

\* `domain_data[LOG_INTERVAL_SUB]()`: the stored cancel callback is called.
CancelStored(h) ==
    /\ active' = active \ {h}
    /\ cancelCalls' = [ cancelCalls EXCEPT ![h] = @ + 1 ]

\* Fault variant: the handler takes the profile lock like the profile handlers
async_start_log_objects_Locked(t) ==
    LET g == setups
        h == domain_data[g]
    IN /\ SERVICE_START_LOG_OBJECTS \in services
       /\ FreeLogSlot(t)
       /\ LockFree(lock[g])
       /\ nextSub + Cardinality(Awaiting) <= MaxSubs
       /\ h # 0 => cancelCalls[h] < MaxCancels
       /\ IF h # 0 THEN CancelStored(h) ELSE UNCHANGED << active, cancelCalls >>
       /\ notes' = notes \cup { NOTE_OBJECT_LOGGING }
       /\ logc' = [ logc EXCEPT ![t] = [ IdleLog EXCEPT !.pc = "awaiting",
                                                        !.setup = g, !.seen = h ] ]
       /\ UNCHANGED << lifeVars, profVars, dumpVars, unsupported, initRepr,
                       domain_data, lastStart, nextSub, lastStop, preStop >>

\* _async_start_log_objects from its entry to the await of the first sample:
\* cancel what is stored (the key stays), create the notification.
\* seq records that the call began in succession to an earlier one: no other
\* call was suspended, and the handle an earlier call had stored was there;
\* during records that a profile run was in flight when the call began.
async_start_log_objects(t) ==
    LET g == setups
        h == domain_data[g]
    IN /\ SERVICE_START_LOG_OBJECTS \in services
       /\ FreeLogSlot(t)
       /\ nextSub + Cardinality(Awaiting) <= MaxSubs
       /\ h # 0 => cancelCalls[h] < MaxCancels
       /\ IF h # 0 THEN CancelStored(h) ELSE UNCHANGED << active, cancelCalls >>
       /\ notes' = notes \cup { NOTE_OBJECT_LOGGING }
       /\ logc' = [ u \in LogCalls |->
                      IF u = t
                        THEN [ IdleLog EXCEPT !.pc = "awaiting", !.setup = g,
                                 !.seen = h,
                                 !.seq = (Awaiting = {} /\ h # 0),
                                 !.during = ProfileInFlight,
                                 !.steps = (IF h # 0 THEN << "cancel" >>
                                                     ELSE << >>)
                                           \o << "notify", "sample" >> ]
                        ELSE [ logc[u] EXCEPT !.seq = FALSE ] ]
       /\ UNCHANGED << lifeVars, profVars, dumpVars, unsupported, initRepr,
                       domain_data, lastStart, nextSub, lastStop, preStop >>

\* The first sample returned: async_track_time_interval installs the periodic
\* sampler and its cancel callback is stored in the dict the handler closed over.
log_objects_done(t) ==
    LET r == logc[t]
        s == nextSub
    IN /\ r.pc = "awaiting"
       /\ active' = active \cup {s}
       /\ nextSub' = s + 1
       /\ domain_data' = [ domain_data EXCEPT ![r.setup] = s ]
       /\ lastStart' = [ r EXCEPT !.pc = "done", !.sub = s, !.result = "ok",
                                   !.steps = @ \o << "install", "store" >> ]
       /\ logc' = [ logc EXCEPT ![t] = IdleLog ]
       /\ preStop' = preStop \ {t}
       /\ UNCHANGED << lifeVars, profVars, dumpVars, unsupported, initRepr,
                       cancelCalls, notes, lastStop >>

\* Fault variant: the periodic sampler is installed before the first sample is
\* awaited, so it is there also when the sample raises
log_objects_failed_Installs(t) ==
    LET r == logc[t]
        s == nextSub
    IN /\ r.pc = "awaiting"
       /\ active' = active \cup {s}
       /\ nextSub' = s + 1
       /\ domain_data' = [ domain_data EXCEPT ![r.setup] = s ]
       /\ lastStart' = [ r EXCEPT !.pc = "done", !.sub = s, !.result = "error" ]
       /\ logc' = [ logc EXCEPT ![t] = IdleLog ]
       /\ preStop' = preStop \ {t}
       /\ UNCHANGED << lifeVars, profVars, dumpVars, unsupported, initRepr,
                       cancelCalls, notes, lastStop >>

\* The first sample raised: the handler ends there.
log_objects_failed(t) ==
    LET r == logc[t] IN
    /\ r.pc = "awaiting"
    /\ lastStart' = [ r EXCEPT !.pc = "done", !.result = "error" ]
    /\ logc' = [ logc EXCEPT ![t] = IdleLog ]
    /\ preStop' = preStop \ {t}
    /\ UNCHANGED << lifeVars, profVars, dumpVars, unsupported, initRepr,
                    domain_data, active, nextSub, cancelCalls, notes, lastStop >>

\* Fault variant: the guard `if LOG_INTERVAL_SUB not in domain_data: return` is gone
async_stop_log_objects_Unguarded ==
    LET g == setups
        h == domain_data[g]
    IN /\ SERVICE_STOP_LOG_OBJECTS \in services
       /\ notes' = notes \ { NOTE_OBJECT_LOGGING }
       /\ domain_data' = [ domain_data EXCEPT ![g] = 0 ]
       /\ IF h # 0 THEN CancelStored(h) ELSE UNCHANGED << active, cancelCalls >>
       /\ lastStop' = IF h # 0 THEN "stopped" ELSE "KeyError"
       /\ preStop' = Awaiting
       /\ UNCHANGED << lifeVars, profVars, dumpVars, unsupported, initRepr,
                       logc, lastStart, nextSub >>

\* _async_stop_log_objects: nothing without a stored handle; otherwise dismiss
\* the notification, pop the handle and call it.
async_stop_log_objects ==
    LET g == setups
        h == domain_data[g]
    IN /\ SERVICE_STOP_LOG_OBJECTS \in services
       /\ IF h = 0
            THEN /\ lastStop' = "noop"
                 /\ UNCHANGED << notes, domain_data, active, cancelCalls >>
            ELSE /\ notes' = notes \ { NOTE_OBJECT_LOGGING }
                 /\ domain_data' = [ domain_data EXCEPT ![g] = 0 ]
                 /\ CancelStored(h)
                 /\ lastStop' = "stopped"
       /\ preStop' = Awaiting
       /\ UNCHANGED << lifeVars, profVars, dumpVars, unsupported, initRepr,
                       logc, lastStart, nextSub >>

NextLog ==
    \/ \E t \in LogCalls : async_start_log_objects(t)
    \/ \E t \in LogCalls : log_objects_done(t)
    \/ \E t \in LogCalls : log_objects_failed(t)
    \/ async_stop_log_objects

\* The lifecycle and the growth-logging actions.
InitLog == Init /\ arepr = DefaultRepr /\ ~unsupported

SpecLog == InitLog /\ [][NextLife \/ NextLog]_vars

\* ------------------------------------------------------------ dump actions
\* All sequences over S of length at most n.
SeqsUpTo(S, n) == UNION { [ 1..k -> S ] : k \in 0..n }

\* The entries of hass.loop._scheduled: a handle is cancelled, or pending; and
\* logging a pending handle either works or raises.
ScheduledKinds == { "cancelled", "pending", "raises" }

\* The for loop of _async_dump_scheduled from entry i on, with the limits cur in
\* force: cancelled handles are skipped, each logged entry is formatted under
\* the limits in force, and an entry whose logging raises ends the loop.
RECURSIVE LogScheduled(_, _, _, _)
LogScheduled(scheduled, i, cur, acc) ==
    IF i > Len(scheduled)
      THEN [ logged |-> acc, raised |-> FALSE ]
      ELSE IF scheduled[i] = "cancelled"
        THEN LogScheduled(scheduled, i + 1, cur, acc)
        ELSE IF scheduled[i] = "raises"
          THEN [ logged |-> acc, raised |-> TRUE ]
          ELSE LogScheduled(scheduled, i + 1, cur,
                            Append(acc, [ handle |-> i,
                                          maxstring |-> cur.maxstring,
                                          maxother |-> cur.maxother ]))

\* Fault variant: the limits are restored after the loop, without try/finally
DumpScheduled_NoFinally(repr0, scheduled) ==
    LET widened == [ maxstring |-> WidenedLimit, maxother |-> WidenedLimit ]
        out == LogScheduled(scheduled, 1, widened, << >>)
    IN [ arepr |-> IF out.raised THEN widened ELSE repr0,
         logged |-> out.logged, raised |-> out.raised ]

\* _async_dump_scheduled on reprlib.aRepr = repr0: save both limits, widen
\* them, log, and restore them in the finally clause.
DumpScheduled(repr0, scheduled) ==
    LET original_maxstring == repr0.maxstring
        original_maxother == repr0.maxother
        widened == [ maxstring |-> WidenedLimit, maxother |-> WidenedLimit ]
        out == LogScheduled(scheduled, 1, widened, << >>)
    IN [ arepr |-> [ maxstring |-> original_maxstring,
                     maxother |-> original_maxother ],
         logged |-> out.logged, raised |-> out.raised ]

\* The log_event_loop_scheduled action (the handler never yields).
async_dump_scheduled(scheduled) ==
    LET out == DumpScheduled(arepr, scheduled) IN
    /\ SERVICE_LOG_EVENT_LOOP_SCHEDULED \in services
    /\ arepr' = out.arepr
    /\ lastSched' = [ scheduled |-> scheduled, logged |-> out.logged,
                      raised |-> out.raised ]
    /\ UNCHANGED << lifeVars, profVars, logVars, unsupported, notes, initRepr,
                    lastDump, lastLogger >>

\* A live instance: its __repr__ works ("ok") or raises an exception ("bad").
ObjectKinds == { "ok", "bad" }

\* repr(obj) of the i-th instance: its text, or the exception it raises.
Repr(i, obj) ==
    IF obj = "bad"
      THEN [ raised |-> TRUE, text |-> << "exception", i >> ]
      ELSE [ raised |-> FALSE, text |-> << "repr", i >> ]

\* Fault variant: repr without the try/except around it
safe_repr_Unwrapped(i, obj) == Repr(i, obj)

\* _safe_repr: repr(obj), or the placeholder when repr raises.
safe_repr(i, obj) ==
    LET v == Repr(i, obj) IN
    IF v.raised
      THEN [ raised |-> FALSE, text |-> << "Failed to serialize", i >> ]
      ELSE v

\* The dump_log_objects action on the instances objgraph.by_type returns: the
\* list is built entry by entry, logged, and the notification created; an
\* exception leaving the list comprehension ends the handler before both.
dump_log_objects(objs) ==
    LET reprs == [ i \in 1..Len(objs) |-> safe_repr(i, objs[i]) ]
        failed == \E i \in 1..Len(objs) : reprs[i].raised
    IN /\ SERVICE_DUMP_LOG_OBJECTS \in services
       /\ IF failed
            THEN /\ lastDump' = [ objs |-> objs, logged |-> << >>,
                                  raised |-> TRUE, notified |-> FALSE ]
                 /\ UNCHANGED notes
            ELSE /\ lastDump' = [ objs |-> objs,
                                  logged |-> [ i \in 1..Len(objs) |-> reprs[i].text ],
                                  raised |-> FALSE, notified |-> TRUE ]
                 /\ notes' = notes \cup { NOTE_OBJECT_DUMP }
       /\ UNCHANGED << lifeVars, profVars, logVars, unsupported, arepr, initRepr,
                       lastSched, lastLogger >>

NextDump ==
    \/ \E scheduled \in SeqsUpTo(ScheduledKinds, MaxScheduled) :
         async_dump_scheduled(scheduled)
    \/ \E objs \in SeqsUpTo(ObjectKinds, MaxObjects) : dump_log_objects(objs)

\* The lifecycle and the dump actions.
InitDump == Init /\ ~unsupported

SpecDump == InitDump /\ [][NextLife \/ NextDump]_vars

\* ------------------------------------------- handlers that only write the log
\* The periodic sampler of an active subscription fires: _log_objects logs the
\* growth since the previous sample.
log_objects(s) ==
    /\ s \in active
    /\ lastLogger' = "log_objects"
    /\ UNCHANGED << lifeVars, profVars, logVars, unsupported, notes, initRepr,
                    arepr, lastSched, lastDump >>

\* The lru_stats action: logs the cache statistics, creates its notification.
lru_stats ==
    /\ SERVICE_LRU_STATS \in services
    /\ lastLogger' = "lru_stats"
    /\ notes' = notes \cup { NOTE_LRU_STATS }
    /\ UNCHANGED << lifeVars, profVars, logVars, unsupported, initRepr,
                    arepr, lastSched, lastDump >>

\* The log_thread_frames action: logs the stack of every thread but the main one.
async_dump_thread_frames ==
    /\ SERVICE_LOG_THREAD_FRAMES \in services
    /\ lastLogger' = "dump_thread_frames"
    /\ UNCHANGED << lifeVars, profVars, logVars, unsupported, notes, initRepr,
                    arepr, lastSched, lastDump >>

NextStats ==
    \/ \E s \in Subs : log_objects(s)
    \/ lru_stats
    \/ async_dump_thread_frames

\* ------------------------------------------------------- the whole program
Next == NextLife \/ NextProfile \/ NextLog \/ NextDump \/ NextStats

Spec == Init /\ [][Next]_vars

\* All handlers together in one setup, with few callers; the dumps are given a
\* loop schedule of one pending handle and one live instance; the failing
\* ends of a profile run and of a first sample are left out.
FrameProfileCalls == ProfileCalls \cap (1..NumFrameProfileCalls)
FrameLogCalls == LogCalls \cap (1..NumFrameLogCalls)

NextFrame ==
    \/ setups = 0 /\ async_setup_entry
    \/ async_unload_entry
    \/ \E p \in FrameProfileCalls : async_run_profile(p)
    \/ \E p \in FrameProfileCalls : async_run_memory_profile(p)
    \/ \E p \in FrameProfileCalls : async_run_resume(p)
    \/ \E p \in FrameProfileCalls : generate_sleep_done(p)
    \/ \E p \in FrameProfileCalls : write_profile_done(p)
    \/ \E t \in FrameLogCalls : async_start_log_objects(t)
    \/ \E t \in FrameLogCalls : log_objects_done(t)
    \/ async_stop_log_objects
    \/ async_dump_scheduled(<< "pending" >>)
    \/ dump_log_objects(<< "ok" >>)
    \/ NextStats

InitFrame == Init /\ arepr = DefaultRepr /\ ~unsupported

SpecFrame == InitFrame /\ [][NextFrame]_vars

\* The same, with the scheduling the event loop guarantees: a woken waiter is
\* resumed, a sleep of finite duration ends, an executor job ends.
FairSpecProfile ==
    /\ SpecProfile
    /\ \A p \in ProfileCalls :
         /\ WF_vars(async_run_resume(p))
         /\ WF_vars(generate_sleep_done(p))
         /\ WF_vars(write_profile_done(p) \/ write_profile_failed(p))

\* ------------------------------------------------ claims: the profile lock
\* A profile run is in flight: its caller is between acquiring and releasing
\* the lock.
InRun(r) == r.pc \in { "sleeping", "writing" }

\* No effect of a run has happened for this caller yet.
NotBegun(r) ==
    r.note = "none" /\ ~r.enabled /\ ~r.ref /\ r.files = 0

\* C1: within one setup at most one profile run (CPU or memory) is between
\* acquiring and releasing the lock, the lock is held while it is, and a caller
\* that waits for the lock has begun nothing of its own run.
C1_OneRunPerSetup ==
    /\ \A p, q \in ProfileCalls :
         (p # q /\ prof[p].setup = prof[q].setup /\ InRun(prof[p]))
            => ~InRun(prof[q])
    /\ \A p \in ProfileCalls :
         /\ InRun(prof[p]) => lock[prof[p].setup].locked
         /\ prof[p].pc \in { "idle", "waiting" } => NotBegun(prof[p])

\* A CPU run is in flight and a memory request of the same setup waits behind it.
C1_Witness ==
    \E p, q \in ProfileCalls :
        /\ prof[p].setup = prof[q].setup
        /\ prof[p].kind = "cpu" /\ InRun(prof[p])
        /\ prof[q].kind = "memory" /\ prof[q].pc = "waiting"

\* C6: on an unsupported runtime a memory request never starts a run: no start
\* notification, no heap reference point, no wait, no file, no completion
\* notification, and it ends with HomeAssistantError.
C6_UnsupportedFailsFirst ==
    /\ \A p \in ProfileCalls :
         (unsupported /\ prof[p].kind = "memory") =>
            (NotBegun(prof[p]) /\ prof[p].pc = "waiting")
    /\ (unsupported /\ lastRun.kind = "memory") =>
         (NotBegun(lastRun) /\ lastRun.result = "HomeAssistantError")

\* A memory request has ended with the error.
C6_Witness ==
    /\ unsupported /\ lastRun.kind = "memory"
    /\ lastRun.pc = "done" /\ lastRun.result = "HomeAssistantError"

\* C9 (as claimed): in the whole process at most one profile run is in flight,
\* also across an unload followed by a new setup.
C9_OneRunPerProcess ==
    Cardinality({ p \in ProfileCalls : InRun(prof[p]) }) <= 1

\* C10: a caller leaves the wait for the lock only by getting the lock, and only
\* as the first of the queue (no timeout, no cancellation, arrival order); and
\* under fair scheduling every waiting caller ends its call.
C10_WaitersServedInOrder ==
    /\ [][ \A p \in ProfileCalls :
             (prof[p].pc = "waiting" /\ prof'[p].pc # "waiting") =>
                /\ p = Head(lock[prof[p].setup].waiters)
                /\ lock[prof[p].setup].locked = FALSE
                /\ \/ InRun(prof'[p])
                   \/ /\ prof'[p].pc = "idle"
                      /\ lastRun'.result = "HomeAssistantError" ]_vars
    /\ \A p \in ProfileCalls :
         (prof[p].pc = "waiting") ~> (prof[p].pc = "idle")

\* A run has completed with two callers queued behind it: the lock is free
\* again and the first of the queue is the one that was woken.
C10_Witness ==
    \E g \in Setups :
        /\ lastRun.pc = "done" /\ lastRun.result = "ok"
        /\ ~lock[g].locked
        /\ Len(lock[g].waiters) >= 2
        /\ lock[g].woken = { Head(lock[g].waiters) }

\* ------------------------------------------------ claims: growth logging
\* C2 (as claimed): at most one periodic growth-logging subscription is active
\* in every reachable state.
C2_AtMostOneActive == Cardinality(active) <= 1

\* C3 (as claimed): when a start_log_objects call that began in succession to
\* an earlier one (seq) installs its subscription, the earlier call's
\* subscription is already cancelled, and when it returns the entry state
\* holds exactly the new handle and the new subscription is the only active one.
C3_SecondStartReplacesFirst ==
    [][ \A t \in LogCalls :
          (logc[t].seq /\ log_objects_done(t)) =>
             /\ logc[t].seen # 0
             /\ logc[t].seen \notin active
             /\ cancelCalls[logc[t].seen] >= 1
             /\ domain_data'[logc[t].setup] = nextSub
             /\ active' = { nextSub } ]_vars

\* C4: stop_log_objects with no stored handle raises nothing, cancels nothing,
\* dismisses no notification and leaves the entry state as it was.
C4_StopWithoutHandleIsNoop ==
    [][ (async_stop_log_objects /\ domain_data[setups] = 0) =>
          /\ lastStop' = "noop"
          /\ UNCHANGED << lifeVars, domain_data, logc, lastStart, active,
                          nextSub, cancelCalls, notes >> ]_vars

\* stop_log_objects has returned as a no-op while the 'started' notification of
\* a suspended start_log_objects call is on display and nothing is stored.
C4_Witness ==
    /\ lastStop = "noop"
    /\ hassData # 0 /\ domain_data[setups] = 0
    /\ NOTE_OBJECT_LOGGING \in notes
    /\ Awaiting # {}

\* C5 (as claimed): once unload has completed no action is registered, the
\* entry state is gone from hass.data and no subscription is active.
C5_UnloadLeavesNothing ==
    (setups >= 1 /\ hassData = 0) => (services = {} /\ active = {})

\* ------------------------------------------------------- claims: the dumps
\* C7: after every log_event_loop_scheduled call, also one in which logging an
\* entry raised, both truncation limits are what they were before the call (so
\* after any number of calls what they were at first); the widened limit was
\* in force for every entry the dump logged.
C7_LimitsRestored ==
    /\ arepr = initRepr
    /\ \A k \in 1..Len(lastSched.logged) :
         /\ lastSched.logged[k].maxstring = WidenedLimit
         /\ lastSched.logged[k].maxother = WidenedLimit

\* A dump that logged an entry and then raised has ended, and the limits are
\* the narrow ones again.
C7_Witness ==
    /\ lastSched.raised
    /\ Len(lastSched.logged) >= 1
    /\ arepr = initRepr
    /\ arepr.maxstring # WidenedLimit /\ arepr.maxother # WidenedLimit

\* C8: dump_log_objects on n live instances logs n entries in enumeration
\* order, the representation of each instance whose repr works and the
\* placeholder for each whose repr raises; it never aborts, and notifies.
C8_DumpCoversAllInstances ==
    LET n == Len(lastDump.objs) IN
    /\ ~lastDump.raised
    /\ Len(lastDump.logged) = n
    /\ \A i \in 1..n :
         lastDump.logged[i] =
            IF lastDump.objs[i] = "ok" THEN << "repr", i >>
                                       ELSE << "Failed to serialize", i >>
    /\ n > 0 => (lastDump.notified /\ NOTE_OBJECT_DUMP \in notes)

\* A dump of three instances of which the second cannot be serialized has
\* logged all three entries.
C8_Witness ==
    /\ Len(lastDump.objs) = 3
    /\ lastDump.objs[1] = "ok" /\ lastDump.objs[2] = "bad" /\ lastDump.objs[3] = "ok"
    /\ Len(lastDump.logged) = 3
    /\ lastDump.notified

\* ------------------------------------- claims: stopping and starting the logging
\* C11 (as claimed): stop_log_objects with a stored handle removes the handle,
\* cancels that subscription and dismisses the 'started' notification; when a
\* stop_log_objects call returns no subscription is active, and none becomes
\* active through a start_log_objects call that was already suspended at its
\* await when the stop ran.
C11_StopEndsLogging ==
    [][ /\ (async_stop_log_objects /\ domain_data[setups] # 0) =>
              /\ domain_data'[setups] = 0
              /\ domain_data[setups] \notin active'
              /\ cancelCalls'[domain_data[setups]] >= 1
              /\ NOTE_OBJECT_LOGGING \notin notes'
        /\ async_stop_log_objects => active' = {}
        /\ \A t \in LogCalls : log_objects_done(t) => t \notin preStop ]_vars

\* C12: a start_log_objects call cancels the stored subscription if one is
\* stored, then creates the 'started' notification, then has one sample taken
\* in the worker, and installs the periodic sampler and stores its handle only
\* when that sample has returned; a call whose sample raises installs nothing,
\* and nothing but the return of a call's sample installs a sampler.
C12_StartStepOrder ==
    [][ /\ \A t \in LogCalls :
             /\ async_start_log_objects(t) =>
                   /\ logc'[t].pc = "awaiting"
                   /\ logc'[t].steps =
                         IF domain_data[setups] # 0
                           THEN << "cancel", "notify", "sample" >>
                           ELSE << "notify", "sample" >>
                   /\ domain_data[setups] # 0 =>
                         /\ domain_data[setups] \notin active'
                         /\ cancelCalls'[domain_data[setups]] =
                               cancelCalls[domain_data[setups]] + 1
                   /\ NOTE_OBJECT_LOGGING \in notes'
                   /\ active' \subseteq active
                   /\ UNCHANGED << domain_data, nextSub >>
             /\ log_objects_done(t) =>
                   /\ logc[t].pc = "awaiting"
                   /\ nextSub \notin active
                   /\ active' = active \cup { nextSub }
                   /\ domain_data'[logc[t].setup] = nextSub
                   /\ lastStart'.steps =
                         logc[t].steps \o << "install", "store" >>
                   /\ UNCHANGED cancelCalls
             /\ log_objects_failed(t) =>
                   /\ lastStart'.result = "error"
                   /\ lastStart'.steps = logc[t].steps
                   /\ UNCHANGED << active, domain_data, nextSub, cancelCalls >>
        /\ ~(active' \subseteq active) =>
              \E t \in LogCalls : log_objects_done(t) ]_vars

\* A call that found a handle stored has cancelled, notified, sampled and
\* installed, in this order; its subscription is active and stored.
C12_Witness ==
    /\ lastStart.result = "ok"
    /\ lastStart.steps = << "cancel", "notify", "sample", "install", "store" >>
    /\ lastStart.seen # 0 /\ lastStart.seen \notin active
    /\ lastStart.sub \in active
    /\ hassData # 0 /\ domain_data[hassData] = lastStart.sub

\* ------------------------------------------------ claims: one profile run
\* C13: a CPU-profile run goes through start notification and profiler enable,
\* the wait, profiler disable, the write of both files, and the completion
\* notification, in this order and holding its lock all the time: while it
\* waits the profiler is on and nothing is written; while the files are being
\* written the profiler is off and the notification is still the start one;
\* the completion notification (the same notification of the run, rewritten)
\* is there only with both files written; the lock is released only in the
\* step that ends the run, and no caller queued at that lock has begun its run
\* while the files are being written.
C13_CpuRunOrder ==
    /\ [](\A p \in ProfileCalls :
            LET r == prof[p] IN
            r.kind = "cpu" =>
              /\ r.pc \in { "waiting", "sleeping", "writing" }
              /\ r.pc = "sleeping" =>
                    /\ r.note = "started" /\ r.enabled /\ r.files = 0
                    /\ lock[r.setup].locked
              /\ r.pc = "writing" =>
                    /\ r.note = "started" /\ ~r.enabled /\ r.files = 0
                    /\ lock[r.setup].locked
                    /\ \A q \in ProfileCalls :
                          (q # p /\ prof[q].setup = r.setup) =>
                             (prof[q].pc = "waiting" /\ NotBegun(prof[q])))
    /\ [](lastRun.kind = "cpu" =>
            /\ lastRun.note = "complete" <=> lastRun.result = "ok"
            /\ lastRun.note = "complete" => (lastRun.files = 2 /\ ~lastRun.enabled)
            /\ lastRun.note # "complete" => lastRun.files = 0)
    /\ [][ \A p \in ProfileCalls :
             (prof[p].kind = "cpu" /\ InRun(prof[p])
                /\ ~lock'[prof[p].setup].locked) =>
                   /\ prof[p].pc = "writing"
                   /\ prof'[p].pc = "idle"
                   /\ lastRun'.kind = "cpu"
                   /\ lastRun'.note = "complete" \/ lastRun'.result = "error" ]_vars

\* A CPU run has completed with both files written while another request was
\* queued at its lock; that request has been woken and has not begun.
C13_Witness ==
    /\ lastRun.kind = "cpu" /\ lastRun.result = "ok"
    /\ lastRun.note = "complete" /\ lastRun.files = 2
    /\ \E p \in ProfileCalls :
          /\ prof[p].pc = "waiting"
          /\ p \in lock[prof[p].setup].woken
          /\ NotBegun(prof[p])

\* ------------------------------------------- claims: the stored handle
\* C14 (as claimed): between setup and unload the entry state holds no handle,
\* or the handle of a subscription that is active.
C14_StoredHandleIsActive ==
    hassData # 0 =>
        (domain_data[hassData] = 0 \/ domain_data[hassData] \in active)

\* C15: the stored handle changes only in a step of start_log_objects (the
\* store after its sample), stop_log_objects or unload; the start, memory,
\* dump_log_objects, lru_stats, log_thread_frames and log_event_loop_scheduled
\* actions leave it as it is.  Growth logging does not touch the profile
\* lock and does not wait for it: whatever the state of the lock, a
\* start_log_objects call can begin, a suspended one can go on when its sample
\* returns, stop_log_objects can run and the periodic sampler can fire.
C15_HandleFrameAndLockIndependence ==
    /\ [][ /\ domain_data' # domain_data =>
                 \/ \E t \in LogCalls : log_objects_done(t)
                 \/ async_stop_log_objects
                 \/ async_unload_entry
           /\ ( \/ \E p \in ProfileCalls :
                      \/ async_run_profile(p)
                      \/ async_run_memory_profile(p)
                      \/ async_run_resume(p)
                      \/ generate_sleep_done(p)
                      \/ write_profile_done(p)
                \/ async_dump_scheduled(<< "pending" >>)
                \/ dump_log_objects(<< "ok" >>)
                \/ lru_stats
                \/ async_dump_thread_frames )
                   => UNCHANGED << domain_data, active, cancelCalls >>
           /\ ( \/ \E t \in LogCalls :
                      async_start_log_objects(t) \/ log_objects_done(t)
                \/ async_stop_log_objects
                \/ \E s \in Subs : log_objects(s) )
                   => UNCHANGED << lock, prof, lastRun >> ]_vars
    /\ [](/\ \A t \in FrameLogCalls :
              /\ ( /\ SERVICE_START_LOG_OBJECTS \in services
                   /\ FreeLogSlot(t)
                   /\ nextSub + Cardinality(Awaiting) <= MaxSubs
                   /\ domain_data[setups] # 0 =>
                         cancelCalls[domain_data[setups]] < MaxCancels )
                      => ENABLED async_start_log_objects(t)
              /\ logc[t].pc = "awaiting" => ENABLED log_objects_done(t)
          /\ SERVICE_STOP_LOG_OBJECTS \in services =>
                ENABLED async_stop_log_objects
          /\ \A s \in active : ENABLED log_objects(s))

\* While one and the same profile run was in flight, a start_log_objects call
\* began and installed its sampler, the sampler fired, and stop_log_objects
\* cancelled it and removed the handle.
C15_Witness ==
    /\ ProfileInFlight /\ lastRun = IdleProf
    /\ lastStart.during /\ lastStart.result = "ok"
    /\ lastLogger = "log_objects"
    /\ lastStop = "stopped" /\ Awaiting = {}
    /\ hassData # 0 /\ domain_data[hassData] = 0
    /\ cancelCalls[lastStart.sub] = 1 /\ active = {}

\* ------------------------------------------------ claims: a run that fails
\* The errors a start / memory call can end with.
RunErrors == { "error", "HomeAssistantError" }

\* C16: a start / memory call that ends with an error (unsupported runtime,
\* or a failed write) reports the error and no completion notification, and
\* the step in which it ends leaves its lock free with the first queued
\* caller woken; a lock is held only by a run that is in flight, so no failed
\* call leaves it held, and a woken caller can always go on.
C16_ErrorReleasesLock ==
    /\ [](lastRun.result \in RunErrors =>
            (lastRun.note # "complete" /\ lastRun.files = 0))
    /\ [](\A g \in Setups :
            /\ lock[g].locked =>
                  \E p \in ProfileCalls : InRun(prof[p]) /\ prof[p].setup = g
            /\ \A p \in lock[g].woken :
                  /\ ~lock[g].locked
                  /\ p = Head(lock[g].waiters)
                  /\ prof[p].pc = "waiting" /\ prof[p].setup = g
                  /\ ENABLED async_run_resume(p))
    /\ [][ \A p \in ProfileCalls :
             LET g == IF prof[p].pc = "idle" THEN setups ELSE prof[p].setup IN
             ( /\ \/ write_profile_failed(p)
                  \/ unsupported /\ async_run_memory_profile(p)
                               /\ LockFree(lock[setups])
                  \/ unsupported /\ prof[p].kind = "memory"
                               /\ async_run_resume(p) ) =>
                /\ lastRun'.result \in RunErrors
                /\ lastRun'.note # "complete"
                /\ prof'[p].pc = "idle"
                /\ ~lock'[g].locked
                /\ lock'[g].woken =
                      IF lock'[g].waiters = << >> THEN {}
                      ELSE { Head(lock'[g].waiters) } ]_vars

\* The write of a run has failed with another request queued at its lock: the
\* lock is free and that request has been woken.
C16_Witness ==
    /\ lastRun.result = "error" /\ lastRun.note = "started"
    /\ \E p \in ProfileCalls :
          /\ prof[p].pc = "waiting"
          /\ ~lock[prof[p].setup].locked
          /\ p \in lock[prof[p].setup].woken
    /\ ~ProfileInFlight

\* ------------------------------------ claims: cancelling and the notification
\* C17 (as claimed): the cancel callback of every subscription is called at
\* most once.
C17_CancelAtMostOnce ==
    \A s \in Subs : cancelCalls[s] <= 1

\* C18 (as claimed): while no start_log_objects call is in flight, the
\* 'started' notification is on display exactly when a subscription is active.
C18_NotificationIffActive ==
    Awaiting = {} => (NOTE_OBJECT_LOGGING \in notes <=> active # {})

====
